---- MODULE Spec2Model ----
(***************************************************************************)
(* State-machine model of island.c: the terminal size sample, the water    *)
(* columns, the drip pool and the cloud, stepped by the frame loop of      *)
(* main.                                                                   *)
(*                                                                         *)
(* Numbers.  A C float is an integer count of 1/Scale units; a value is    *)
(* rounded to the nearest unit where the code stores it in a float field.  *)
(* A size_t is a natural below SizeMod = 2^SizeBits and its arithmetic     *)
(* wraps modulo SizeMod.  A size_t in the upper half of the range only     *)
(* arises from a wrapped subtraction; converted to float it is the huge    *)
(* value HugeF, which absorbs every addend (as 2^64 does in a 24-bit       *)
(* mantissa).                                                              *)
(*                                                                         *)
(* Undefined behaviour.  An out-of-range float to size_t conversion yields *)
(* one of the results of UBModes.  An access outside the water allocation  *)
(* ends the modelled run at pc = "undefined": nothing is stated about what *)
(* the program does after it.                                              *)
(*                                                                         *)
(* Specifications.  Spec is the frame loop of main.  SpecOps calls the     *)
(* functions in any order, to reach pools of several drips.  SpecWave      *)
(* repeats water_update on the surface one impact leaves behind, SpecFall  *)
(* repeats drips_update on one freshly spawned drip, both for more steps   *)
(* than the frame loop is explored for.                                    *)
(***************************************************************************)
EXTENDS Integers, Sequences, FiniteSets, TLC

\* ---------------------------------------------------------------- bounds
\* number of frames of the main loop that are explored
MaxFrames == 37
\* bits of the modelled size_t
SizeBits == 16
\* terminal sizes <<columns, rows>> the ioctl may report
TermSizes == { <<4, 3>>, <<6, 5>> }

\* ------------------------------------------------------------ arithmetic
\* resolution of a float: units per 1.0
Scale == 1000
SizeMod == 2 ^ SizeBits
HugeF == SizeMod * Scale

SizeT(n) == n % SizeMod

\* a/b rounded to the nearest integer, symmetric about zero
RoundDiv(a, b) ==
    IF a >= 0 THEN (2 * a + b) \div (2 * b) ELSE -((2 * (-a) + b) \div (2 * b))

\* (float)n for a size_t n
ToFloat(n) == IF n >= SizeMod \div 2 THEN HugeF ELSE n * Scale

\* float addition
FAdd(a, b) == IF a >= HugeF THEN a ELSE a + b

\* outcomes of the float -> size_t conversions whose value is out of range
\* (undefined): "wrap" is what cvttss2si code yields, "sat" what a saturating
\* convert instruction yields, "ones" the all-ones value of a convert
\* instruction that signals an invalid operand that way
UBModes == {"wrap", "sat", "ones"}

\* (size_t)f for a float f: the fraction is discarded; the result is undefined
\* when the integral part is not representable
FloatToSizeT(f, ub) ==
    IF f > -Scale /\ f < HugeF
    THEN (IF f < 0 THEN 0 ELSE f \div Scale)
    ELSE IF ub = "wrap"
         THEN (IF f < 0 THEN SizeT(-((-f) \div Scale)) ELSE 0)
         ELSE IF ub = "sat"
         THEN (IF f < 0 THEN 0 ELSE SizeMod - 1)
         ELSE SizeMod - 1

\* ------------------------------------------------------------- constants
FRAME_RATE == 10
\* 9.8/FRAME_RATE
GRAVITY == (98 * Scale) \div (10 * FRAME_RATE)
\* 0.025 as a fraction of 1000
WATER_TENSION == 25
WATER_DAMPENING == 25
\* 0.25 as a fraction of 1000
WATER_SPREAD == 250
\* 10.0/FRAME_RATE
CLOUD_SPEED == (10 * Scale) \div FRAME_RATE
\* number of spread passes of one water_update
SpreadPasses == 8
\* water->target_height = 8 on a resize
InitialTarget == 8 * Scale
\* cloud->drop_delay = 30
DropDelay == 30

VARIABLES pc, frame, term, water, drips, cloud, cmpcol, gen, peak, out

vars == <<pc, frame, term, water, drips, cloud, cmpcol, gen, peak, out>>

\* ------------------------------------------------------------- termsize
\* what ioctl(TIOCGWINSZ) may do: fail, or report one of the sizes
Sampled(s) == [ok |-> TRUE, ws_col |-> s[1], ws_row |-> s[2]]
Queries == {Sampled(s) : s \in TermSizes} \cup {[ok |-> FALSE, ws_col |-> 0, ws_row |-> 0]}

\* termsize_update with the ioctl outcome q
termsize_update(t, q) ==
    IF ~q.ok THEN t
    ELSE IF q.ws_col # t.width \/ q.ws_row # t.height
         THEN [width |-> q.ws_col, height |-> q.ws_row, updated |-> 1]
         ELSE [t EXCEPT !.updated = 0]

\* termsize_init with the terminal reporting size s
termsize_init(s) ==
    termsize_update([width |-> 0, height |-> 0, updated |-> 0], Sampled(s))

\* ---------------------------------------------------------------- water
\* water.cols is the array at water->cols, one cell per allocated column.
NCols(w) == Len(w.cols)

\* the loops of water_update and of render run to term->width: they leave the
\* allocation when a failed realloc has left it shorter than that
WaterOutOfBounds(w, t) == t.width > NCols(w)

\* mutant: the restoring force without the damping term
Restore_NoDamping(w, n) ==
    [w EXCEPT !.cols =
        [i \in 1..Len(w.cols) |->
            IF i <= n
            THEN LET c == w.cols[i]
                     s == c.speed + RoundDiv(WATER_TENSION * (w.target_height - c.height), 1000)
                 IN  [height |-> c.height + s, speed |-> s]
            ELSE w.cols[i]]]

\* the restoring-force loop, lines 175-180, over the columns 0..n-1
Restore(w, n) ==
    [w EXCEPT !.cols =
        [i \in 1..Len(w.cols) |->
            IF i <= n
            THEN LET c == w.cols[i]
                     s == c.speed + RoundDiv(WATER_TENSION * (w.target_height - c.height)
                                             - c.speed * WATER_DAMPENING, 1000)
                 IN  [height |-> c.height + s, speed |-> s]
            ELSE w.cols[i]]]

\* WATER_SPREAD * d
SpreadOf(d) == RoundDiv(WATER_SPREAD * d, 1000)

\* mutant: only the ldelta of the right neighbour is applied
SpreadDelta_LeftOnly(w, n, k) ==
    IF k + 1 <= n - 1 THEN SpreadOf(w.cols[k + 2].height - w.cols[k + 1].height) ELSE 0

\* what one pass of the spread loop, lines 183-200, adds to column k (from 0)
\* of n: ldelta of column k+1 and rdelta of column k-1, both taken from the
\* heights before the pass
SpreadDelta(w, n, k) ==
      (IF k + 1 <= n - 1 THEN SpreadOf(w.cols[k + 2].height - w.cols[k + 1].height) ELSE 0)
    + (IF k >= 1 THEN SpreadOf(w.cols[k].height - w.cols[k + 1].height) ELSE 0)

\* one pass of the spread loop for a terminal n columns wide: the first loop
\* adds the deltas to the speeds, the second to the heights
SpreadPass(w, n) ==
    [w EXCEPT !.cols =
        [i \in 1..Len(w.cols) |->
            IF i <= n
            THEN [height |-> w.cols[i].height + SpreadDelta(w, n, i - 1),
                  speed |-> w.cols[i].speed + SpreadDelta(w, n, i - 1)]
            ELSE w.cols[i]]]

RECURSIVE Spread(_, _, _)
Spread(w, n, j) ==
    IF j = 0 THEN w ELSE Spread(SpreadPass(w, n), n, j - 1)

\* mutant: the resize keeps the speed of the columns that existed
WaterResize_KeepSpeed(w, t) ==
    [cols |-> [i \in 1..t.width |->
                 [height |-> InitialTarget,
                  speed |-> IF i <= Len(w.cols) THEN w.cols[i].speed ELSE 0]],
     target_height |-> InitialTarget,
     island_y |-> SizeT((t.height * 3) \div 4 - 1),
     rc |-> 0]

\* mutant: the resize keeps the target_height that the impacts have raised
WaterResize_KeepTarget(w, t) ==
    [cols |-> [i \in 1..t.width |-> [height |-> w.target_height, speed |-> 0]],
     target_height |-> w.target_height,
     island_y |-> SizeT((t.height * 3) \div 4 - 1),
     rc |-> 0]

\* the resize branch of water_update, lines 161-173, when realloc succeeds
WaterResize(w, t) ==
    [cols |-> [i \in 1..t.width |-> [height |-> InitialTarget, speed |-> 0]],
     target_height |-> InitialTarget,
     island_y |-> SizeT((t.height * 3) \div 4 - 1),
     rc |-> 0]

\* water_update: ok is whether realloc succeeds; rc is the return value
water_update(w, t, ok) ==
    IF t.updated = 1 /\ ~ok THEN [w EXCEPT !.rc = -2]
    ELSE LET w1 == IF t.updated = 1 THEN WaterResize(w, t) ELSE w
         IN  [Spread(Restore(w1, t.width), t.width, SpreadPasses) EXCEPT !.rc = 0]

\* the loops of water_update run outside the allocation: no resize branch
\* has the chance to reallocate
WaterUpdateUndefined(w, t) == t.updated = 0 /\ WaterOutOfBounds(w, t)

\* water_init: water_update on the freshly sampled terminal
water_init(t) ==
    water_update([cols |-> << >>, target_height |-> 0, island_y |-> 0, rc |-> 0],
                 t, TRUE)

\* ---------------------------------------------------------------- drips
\* A slot of the pool is a drip_t; y0 and n are history fields that are not in
\* the struct: the y the drip was spawned with and the number of drips_update
\* steps it has taken since.
Drip(x, y) == [active |-> 1, x |-> x, y |-> y, speed |-> 0, y0 |-> y, n |-> 0]

\* mutant: the search for an inactive slot is skipped
FirstFree_NoSearch(ds) == Len(ds)

\* the loop of lines 365-369: the index (from 0) of the first inactive slot,
\* or the pool size when every slot is active
FirstFree(ds) ==
    IF \E i \in 1..Len(ds) : ds[i].active = 0
    THEN (CHOOSE i \in 1..Len(ds) :
              ds[i].active = 0 /\ \A j \in 1..(i - 1) : ds[j].active = 1) - 1
    ELSE Len(ds)

\* mutant: the search for an inactive slot starts at slot 1 instead of 0
drips_generate_SkipFirst(ds, x, h, ok) ==
    LET free == {k \in 2..Len(ds) : ds[k].active = 0}
        i == IF free = {} THEN Len(ds)
             ELSE (CHOOSE k \in free : \A j \in free : k <= j) - 1
        d == Drip(x, SizeT((h - 2) * 8))
    IN  IF i = Len(ds)
        THEN (IF ok THEN [drips |-> Append(ds, d), rc |-> 0]
                    ELSE [drips |-> ds, rc |-> -2])
        ELSE [drips |-> [ds EXCEPT ![i + 1] = d], rc |-> 0]

\* mutant: the size of the pool grows although realloc failed
drips_generate_GrowAnyway(ds, x, h, ok) ==
    LET i == FirstFree(ds)
        d == Drip(x, SizeT((h - 2) * 8))
    IN  IF i = Len(ds)
        THEN (IF ok THEN [drips |-> Append(ds, d), rc |-> 0]
                    ELSE [drips |-> Append(ds, [d EXCEPT !.active = 0]), rc |-> -2])
        ELSE [drips |-> [ds EXCEPT ![i + 1] = d], rc |-> 0]

\* drips_generate(drips, x) on a terminal h rows high; ok is whether realloc
\* succeeds.  Yields the pool and the return value.
drips_generate(ds, x, h, ok) ==
    LET i == FirstFree(ds)
        d == Drip(x, SizeT((h - 2) * 8))
    IN  IF i = Len(ds)
        THEN (IF ok THEN [drips |-> Append(ds, d), rc |-> 0]
                    ELSE [drips |-> ds, rc |-> -2])
        ELSE [drips |-> [ds EXCEPT ![i + 1] = d], rc |-> 0]

\* the column whose height and speed drips_update uses for slot i (from 0):
\* water->cols[drips->drips->x]
ImpactColumn(ds, i) == ds[1].x

\* lines 398-404: gravity, then the fall
Fall(d, ub) ==
    LET s == d.speed - GRAVITY
    IN  [d EXCEPT !.speed = s,
                  !.n = d.n + 1,
                  !.y = IF ToFloat(d.y) < s THEN 0
                        ELSE FloatToSizeT(FAdd(ToFloat(d.y), s), ub)]

\* lines 409-411
RaiseTarget(w, t) ==
    IF w.target_height < ToFloat(SizeT((t.height - 3) * 8))
    THEN [w EXCEPT !.target_height = w.target_height + RoundDiv(8 * Scale, t.width)]
    ELSE w

\* drips_update reads and writes a column outside the allocation
DripsUpdateUndefined(ds, w) ==
    \E i \in 1..Len(ds) : ds[i].active = 1 /\ ImpactColumn(ds, i - 1) >= NCols(w)

\* drips_update from slot i (from 0) on; ub is the outcome of an undefined
\* conversion.  st holds the pool, the water, the
\* column used for each slot handled so far (-1 for an inactive slot) and the
\* number of impacts
RECURSIVE DripsLoop(_, _, _, _)
DripsLoop(i, st, t, ub) ==
    IF i >= Len(st.drips) THEN st
    ELSE IF st.drips[i + 1].active = 0
    THEN DripsLoop(i + 1, [st EXCEPT !.cmp = Append(st.cmp, -1)], t, ub)
    ELSE
      LET d == Fall(st.drips[i + 1], ub)
          x == ImpactColumn(st.drips, i)
          hit == ToFloat(d.y) <= st.water.cols[x + 1].height
          w1 == [st.water EXCEPT !.cols[x + 1].speed = @ + d.speed]
      IN  DripsLoop(i + 1,
            IF hit
            THEN [drips |-> [st.drips EXCEPT ![i + 1] = [d EXCEPT !.active = 0]],
                  water |-> RaiseTarget(w1, t),
                  cmp |-> Append(st.cmp, x),
                  hits |-> st.hits + 1]
            ELSE [st EXCEPT !.drips[i + 1] = d, !.cmp = Append(st.cmp, x)],
            t, ub)

drips_update(ds, w, t, ub) ==
    DripsLoop(0, [drips |-> ds, water |-> w, cmp |-> << >>, hits |-> 0], t, ub)

\* ---------------------------------------------------------------- cloud
cloud_init(t) ==
    [pos |-> ToFloat(SizeT(SizeT(t.width * 8) \div 2 - 2)),
     speed |-> CLOUD_SPEED,
     drop_count |-> 0,
     drop_delay |-> DropDelay]

\* (float)((cloud->term->width-5)*8)
CloudMax(t) == ToFloat(SizeT((t.width - 5) * 8))

\* lines 442-449
CloudResize(c, t) ==
    IF t.updated = 1
    THEN (IF t.width < 5 THEN [c EXCEPT !.pos = 0]
          ELSE IF c.pos >= CloudMax(t) THEN [c EXCEPT !.pos = CloudMax(t)]
          ELSE c)
    ELSE c

\* lines 451-463: rev is whether random()%(width*8) is 0
CloudMove(c, t, rev) ==
    LET c1 == IF rev THEN [c EXCEPT !.speed = -c.speed] ELSE c
        c2 == [c1 EXCEPT !.pos = FAdd(c1.pos, c1.speed)]
        c3 == IF c2.pos >= CloudMax(t)
              THEN [c2 EXCEPT !.pos = CloudMax(t), !.speed = -CLOUD_SPEED]
              ELSE c2
    IN  IF c3.pos <= 0 THEN [c3 EXCEPT !.pos = 0, !.speed = CLOUD_SPEED] ELSE c3

\* mutant: the timer must pass drop_delay
DropDue_Late(c) == c.drop_count > c.drop_delay

\* line 466
DropDue(c) == c.drop_count >= c.drop_delay

\* (int)(cloud->pos/8.0)+2, line 468
DropColumn(c) == SizeT(c.pos \div (8 * Scale) + 2)

\* cloud_update: yields the cloud, the pool and what was asked of
\* drips_generate (called, its x, its return value, the pool it was given)
cloud_update(c, ds, t, rev, ok) ==
    LET c1 == CloudMove(CloudResize(c, t), t, rev)
        c2 == [c1 EXCEPT !.drop_count = SizeT(c1.drop_count + 1)]
    IN  IF DropDue(c2)
        THEN LET r == drips_generate(ds, DropColumn(c2), t.height, ok)
             IN  [cloud |-> [c2 EXCEPT !.drop_count = 0],
                  drips |-> r.drips,
                  gen |-> [called |-> TRUE, x |-> DropColumn(c2), rc |-> r.rc,
                           before |-> ds]]
        ELSE [cloud |-> c2, drips |-> ds,
              gen |-> [called |-> FALSE, x |-> 0, rc |-> 0, before |-> << >>]]

\* --------------------------------------------------------------- render
CM_UNKNOWN == 0
CM_CLOUD == 1
CM_ISLAND == 2
CM_WATER_FG == 3
CM_WATER_BG == 4

\* What render writes is a sequence of operations [op, a, b]: "color" (a
\* printf of an SGR sequence; a is the color_mode it leaves), "move" (the
\* cursor-position sequence for row a, column b, both from 1) and a glyph,
\* "drip", "cloud", "blank" or "water", a cells wide.
SetColor(m) == [op |-> "color", a |-> m, b |-> 0]
MoveCursor(y, x) == [op |-> "move", a |-> y + 1, b |-> x + 1]
WriteGlyph(g, n) == [op |-> g, a |-> n, b |-> 0]

\* lines 235-265: the cell (y, x) belongs to the island silhouette
IsIsland(w, t, y, x) ==
    LET mid == t.width \div 2
        iy == w.island_y
    IN  \/ /\ y = SizeT(iy - 5)
           /\ x = SizeT(mid - 3) \/ x = SizeT(mid - 1) \/ x = SizeT(mid + 1)
        \/ /\ y = SizeT(iy - 4)
           /\ x >= SizeT(mid - 2) /\ x <= mid
        \/ /\ y = SizeT(iy - 3)
           /\ x = SizeT(mid - 3) \/ x = SizeT(mid + 1)
        \/ /\ y = SizeT(iy - 3)
           /\ x = SizeT(mid - 1)
        \/ /\ y = SizeT(iy - 2) \/ y = SizeT(iy - 1)
           /\ x = mid
        \/ /\ y >= iy
           /\ x >= SizeT(mid - SizeT(1 + 2 * SizeT(y - iy)))
           /\ x <= SizeT(mid + SizeT(1 + 2 * SizeT(y - iy)))

\* lines 235-269: st is [move, mode, ops], the flags of render and what the
\* cell has written so far
IslandStage(st, w, t, y, x) ==
    IF IsIsland(w, t, y, x)
    THEN [st EXCEPT !.ops = Append(@, SetColor(CM_ISLAND)), !.mode = CM_ISLAND]
    ELSE IF st.mode = CM_ISLAND
    THEN [st EXCEPT !.ops = Append(@, SetColor(CM_UNKNOWN)), !.mode = CM_UNKNOWN]
    ELSE st

\* line 274: drip d is drawn in the cell (y, x)
DripInCell(d, t, y, x) ==
    d.active = 1 /\ y = SizeT(t.height * 8 - d.y) \div 8 /\ x = d.x

\* lines 272-286, from slot i (from 0) on: the continue of line 283 goes on
\* with the next slot
RECURSIVE DripStage(_, _, _, _, _, _)
DripStage(i, st, ds, t, y, x) ==
    IF i >= Len(ds) THEN st
    ELSE IF ~DripInCell(ds[i + 1], t, y, x) THEN DripStage(i + 1, st, ds, t, y, x)
    ELSE LET o1 == IF st.mode # CM_WATER_FG THEN <<SetColor(CM_WATER_FG)>> ELSE << >>
             o2 == IF st.move = 1 THEN <<MoveCursor(y, x)>> ELSE << >>
         IN  DripStage(i + 1,
                 [st EXCEPT !.ops = @ \o o1 \o o2 \o <<WriteGlyph("drip", 1)>>,
                            !.mode = CM_WATER_FG],
                 ds, t, y, x)

\* line 289
CloudInCell(c, y, x) == y <= 2 /\ x = c.pos \div (8 * Scale)

\* lines 289-299
CloudStage(st, y, x) ==
    LET o1 == IF st.move = 1 THEN <<MoveCursor(y, x)>> ELSE << >>
        o2 == IF st.mode # CM_CLOUD THEN <<SetColor(CM_CLOUD)>> ELSE << >>
    IN  [st EXCEPT !.ops = @ \o o1 \o o2 \o <<WriteGlyph("cloud", 5)>>,
                   !.mode = CM_CLOUD,
                   !.move = 1]

\* lines 302-337
WaterStage(st, w, t, y, x) ==
    LET ywh == ToFloat(SizeT((t.height - y) * 8))
        h == w.cols[x + 1].height
        mv == IF st.move = 1 THEN <<MoveCursor(y, x)>> ELSE << >>
    IN  IF h < ywh - 8 * Scale
        THEN (IF st.mode = CM_ISLAND
              THEN [st EXCEPT !.ops = @ \o mv \o <<WriteGlyph("blank", 1)>>, !.move = 0]
              ELSE [st EXCEPT !.move = 1])
        ELSE IF h >= ywh
        THEN [st EXCEPT
                !.ops = @ \o mv
                          \o (IF st.mode # CM_WATER_BG THEN <<SetColor(CM_WATER_BG)>> ELSE << >>)
                          \o <<WriteGlyph("blank", 1)>>,
                !.mode = CM_WATER_BG,
                !.move = 0]
        ELSE [st EXCEPT
                !.ops = @ \o mv
                          \o (IF st.mode # CM_WATER_FG /\ st.mode # CM_ISLAND
                              THEN <<SetColor(CM_WATER_FG)>> ELSE << >>)
                          \o <<WriteGlyph("water", 1)>>,
                !.mode = IF st.mode # CM_ISLAND THEN CM_WATER_FG ELSE st.mode,
                !.move = 0]

\* the body of the x loop, lines 234-337, for the cell (y, x)
RenderCell(st, w, ds, c, t, y, x) ==
    LET s0 == IF x = 0 THEN [st EXCEPT !.mode = CM_UNKNOWN, !.ops = << >>]
                       ELSE [st EXCEPT !.ops = << >>]
        s1 == IslandStage(s0, w, t, y, x)
        s2 == DripStage(0, s1, ds, t, y, x)
    IN  IF CloudInCell(c, y, x) THEN CloudStage(s2, y, x)
        ELSE WaterStage(s2, w, t, y, x)

\* the x loop, lines 233-338, of row y up to and without column n: the flags
\* and, for every cell so far, what was written for it and the color_mode it
\* left.  acc is that record for the rows above.
RECURSIVE RenderRow(_, _, _, _, _, _, _)
RenderRow(n, acc, w, ds, c, t, y) ==
    IF n = 0 THEN acc
    ELSE LET p == RenderRow(n - 1, acc, w, ds, c, t, y)
             r == RenderCell([move |-> p.move, mode |-> p.mode, ops |-> << >>],
                             w, ds, c, t, y, n - 1)
         IN  [move |-> r.move, mode |-> r.mode,
              cells |-> Append(p.cells,
                           [y |-> y, x |-> n - 1, ops |-> r.ops, mode |-> r.mode])]

\* the y loop, lines 230-339, up to and without row m
RECURSIVE RenderRows(_, _, _, _, _)
RenderRows(m, w, ds, c, t) ==
    IF m = 0 THEN [move |-> 1, mode |-> CM_UNKNOWN, cells |-> << >>]
    ELSE LET above == RenderRows(m - 1, w, ds, c, t)
         IN  CASE above.move \in {0, 1} ->
                 RenderRow(t.width, above, w, ds, c, t, m - 1)

\* render(water, drips, cloud): the cells in the order they are scanned
render(w, ds, c, t) == RenderRows(t.height, w, ds, c, t).cells

\* ----------------------------------------------------------- frame loop
\* History variables: cmpcol is what the last drips_update did (the column
\* used for each slot, -1 for a slot it skipped, and the number of impacts),
\* gen what the last cloud_update asked of drips_generate, peak the largest
\* number of drips that were ever active together, out what the last render
\* wrote.  cmpcol, gen and out are cleared by the next call of another
\* function.
NoGen == [called |-> FALSE, x |-> 0, rc |-> 0, before |-> << >>]
NoCmp == [cols |-> << >>, hits |-> 0]

NumActive(ds) == Cardinality({i \in 1..Len(ds) : ds[i].active = 1})

Max(a, b) == IF a >= b THEN a ELSE b

\* main up to the loop: termsize_init, drips_init, cloud_init and water_init
\* all succeeded on a terminal of size s
Init ==
    \E s \in TermSizes :
        /\ pc = "termsize"
        /\ frame = 0
        /\ term = termsize_init(s)
        /\ drips = << >>
        /\ cloud = cloud_init(termsize_init(s))
        /\ water = water_init(termsize_init(s))
        /\ cmpcol = NoCmp
        /\ gen = NoGen
        /\ peak = 0
        /\ out = << >>

\* line 500
TermsizeUpdate ==
    /\ pc = "termsize"
    /\ frame < MaxFrames
    /\ \E q \in Queries : term' = termsize_update(term, q)
    /\ frame' = frame + 1
    /\ pc' = "drips"
    /\ out' = << >>
    /\ UNCHANGED <<water, drips, cloud, cmpcol, gen, peak>>

\* line 501
DripsUpdate ==
    /\ pc = "drips"
    /\ IF DripsUpdateUndefined(drips, water)
       THEN /\ pc' = "undefined"
            /\ UNCHANGED <<drips, water, cmpcol>>
       ELSE /\ \E ub \in UBModes :
                  LET r == drips_update(drips, water, term, ub)
                  IN  /\ drips' = r.drips
                      /\ water' = r.water
                      /\ cmpcol' = [cols |-> r.cmp, hits |-> r.hits]
            /\ pc' = "cloud"
    /\ UNCHANGED <<frame, term, cloud, gen, peak, out>>

\* line 502
CloudUpdate ==
    /\ pc = "cloud"
    /\ \E rev \in BOOLEAN, ok \in BOOLEAN :
          LET r == cloud_update(cloud, drips, term, rev, ok)
          IN  /\ cloud' = r.cloud
              /\ drips' = r.drips
              /\ gen' = r.gen
              /\ peak' = Max(peak, NumActive(r.drips))
              /\ cmpcol' = [cmpcol EXCEPT !.cols = << >>]
    /\ pc' = "water"
    /\ UNCHANGED <<frame, term, water, out>>

\* line 503
WaterUpdate ==
    /\ pc = "water"
    /\ IF WaterUpdateUndefined(water, term)
       THEN pc' = "undefined" /\ UNCHANGED water
       ELSE /\ pc' = "render"
            /\ \E ok \in BOOLEAN : water' = water_update(water, term, ok)
    /\ gen' = NoGen
    /\ UNCHANGED <<frame, term, drips, cloud, cmpcol, peak, out>>

\* lines 504-508: render reads the state and writes to the terminal; it reads
\* water->cols up to term->width
Render ==
    /\ pc = "render"
    /\ IF WaterOutOfBounds(water, term)
       THEN pc' = "undefined" /\ out' = out
       ELSE pc' = "termsize" /\ out' = render(water, drips, cloud, term)
    /\ cmpcol' = NoCmp
    /\ UNCHANGED <<frame, term, water, drips, cloud, gen, peak>>

Next == TermsizeUpdate \/ DripsUpdate \/ CloudUpdate \/ WaterUpdate \/ Render

Spec == Init /\ [][Next]_vars

\* ------------------------------------------------- the functions as called
\* The functions of the pool and of the water called in any order, as a test
\* of them would: frame counts the calls.  The spawn columns are the ones the
\* cloud passes on a terminal of TermSizes that is 5 columns wide or more.
MaxOps == 7
\* no more slots than this are appended
MaxPool == 3
OpsColumns == {2, 3}

OpsTermsize ==
    /\ pc = "termsize" /\ frame < MaxOps
    /\ \E q \in Queries : term' = termsize_update(term, q)
    /\ frame' = frame + 1
    /\ cmpcol' = NoCmp /\ gen' = NoGen
    /\ UNCHANGED <<pc, water, drips, cloud, peak, out>>

OpsGenerate ==
    /\ pc = "termsize" /\ frame < MaxOps
    /\ Len(drips) < MaxPool \/ NumActive(drips) < Len(drips)
    /\ \E x \in OpsColumns, ok \in BOOLEAN :
          LET r == drips_generate(drips, x, term.height, ok)
          IN  /\ drips' = r.drips
              /\ gen' = [called |-> TRUE, x |-> x, rc |-> r.rc, before |-> drips]
              /\ peak' = Max(peak, NumActive(r.drips))
    /\ frame' = frame + 1
    /\ cmpcol' = NoCmp
    /\ UNCHANGED <<pc, term, water, cloud, out>>

OpsDripsUpdate ==
    /\ pc = "termsize" /\ frame < MaxOps
    /\ IF DripsUpdateUndefined(drips, water)
       THEN /\ pc' = "undefined"
            /\ UNCHANGED <<drips, water, cmpcol>>
       ELSE /\ \E ub \in UBModes :
                  LET r == drips_update(drips, water, term, ub)
                  IN  /\ drips' = r.drips
                      /\ water' = r.water
                      /\ cmpcol' = [cols |-> r.cmp, hits |-> r.hits]
            /\ pc' = pc
    /\ frame' = frame + 1
    /\ gen' = NoGen
    /\ UNCHANGED <<term, cloud, peak, out>>

OpsWaterUpdate ==
    /\ pc = "termsize" /\ frame < MaxOps
    /\ IF WaterUpdateUndefined(water, term)
       THEN pc' = "undefined" /\ UNCHANGED water
       ELSE /\ pc' = pc
            /\ \E ok \in BOOLEAN : water' = water_update(water, term, ok)
    /\ frame' = frame + 1
    /\ cmpcol' = NoCmp /\ gen' = NoGen
    /\ UNCHANGED <<term, drips, cloud, peak, out>>

NextOps == OpsTermsize \/ OpsGenerate \/ OpsDripsUpdate \/ OpsWaterUpdate

SpecOps == Init /\ [][NextOps]_vars

\* ------------------------------------------------------------------ claims
\* C1: immediately after water_update returns, the number of allocated water
\* columns equals the current terminal width, also after a failed
\* reallocation on a resize frame.
C1_ColumnsMatchWidth == pc = "render" => NCols(water) = term.width

\* C2: after every termsize_update the updated flag is set if and only if
\* the sampled size differs from the stored one; a failed query leaves the
\* size unchanged and the flag clear.
C2_UpdatedIffChanged ==
    [][pc = "termsize" =>
          (term'.updated = 1 <=>
              (term'.width # term.width \/ term'.height # term.height))]_vars

\* C3: in drips_update the column compared with, and struck by, every active
\* drip is the column at that drip's own x.
C3_OwnColumn ==
    \A i \in 1..Len(cmpcol.cols) :
        cmpcol.cols[i] # -1 => cmpcol.cols[i] = drips[i].x

\* the lowest-indexed inactive slot of a pool that has one (index from 1)
LowestInactive(b) ==
    CHOOSE k \in 1..Len(b) :
        b[k].active = 0 /\ \A j \in 1..Len(b) : b[j].active = 0 => k <= j

\* C4: drips_generate reuses the lowest-indexed inactive slot whenever one
\* exists and leaves the pool size unchanged; it appends exactly one slot
\* only when every slot is active (or, when the allocation fails, changes
\* nothing).
C4_SlotReuse ==
    gen.called =>
        IF \E k \in 1..Len(gen.before) : gen.before[k].active = 0
        THEN /\ Len(drips) = Len(gen.before)
             /\ drips[LowestInactive(gen.before)].active = 1
             /\ drips[LowestInactive(gen.before)].x = gen.x
             /\ \A j \in 1..Len(drips) :
                    j # LowestInactive(gen.before) => drips[j] = gen.before[j]
        ELSE \/ /\ gen.rc = 0
                /\ Len(drips) = Len(gen.before) + 1
                /\ drips[Len(drips)].active = 1
                /\ drips[Len(drips)].x = gen.x
                /\ \A j \in 1..Len(gen.before) : drips[j] = gen.before[j]
             \/ /\ gen.rc = -2
                /\ drips = gen.before

\* three slots, the second deactivated, a fourth spawn: it took slot 2 and the
\* pool still has three slots
C4_Witness ==
    /\ gen.called
    /\ Len(gen.before) = 3
    /\ gen.before[1].active = 1
    /\ gen.before[2].active = 0
    /\ gen.before[3].active = 1
    /\ Len(drips) = 3
    /\ drips[2].active = 1

\* C5: the pool size never decreases and always equals the largest number of
\* drips that have been active at the same time.
C5_PoolHighWater ==
    /\ [](Len(drips) = peak)
    /\ [][Len(drips') >= Len(drips)]_vars

\* the pool grew to three slots and keeps them after two drips have landed
C5_Witness == peak = 3 /\ Len(drips) = 3 /\ NumActive(drips) = 1

\* C6: after drips_update, target_height never exceeds (height-3)*8, for any
\* terminal size.
C6_TargetCapped ==
    pc = "cloud" => water.target_height <= (term.height - 3) * 8 * Scale

\* every column is at target_height with speed 0 and island_y is height*3/4 - 1
WaterIsReset ==
    /\ \A i \in 1..NCols(water) :
          /\ water.cols[i].height = water.target_height
          /\ water.cols[i].speed = 0
    /\ water.island_y = (term.height * 3) \div 4 - 1

C8_Kinematics ==
    \A i \in 1..Len(drips) :
        drips[i].active = 1 =>
            LET d == drips[i]
                e == Max(0, d.y0 * Scale - (GRAVITY * d.n * (d.n + 1)) \div 2)
            IN  /\ d.speed = -(GRAVITY * d.n)
                /\ d.y * Scale - e <= Scale \div 100
                /\ e - d.y * Scale <= Scale \div 100

\* C9: after every cloud_update the cloud position lies in [0, (width-5)*8],
\* and at either end the velocity points back into the interval.
C9_CloudInBounds ==
    pc = "water" =>
        /\ cloud.pos >= 0
        /\ cloud.pos <= (term.width - 5) * 8 * Scale
        /\ cloud.pos = 0 => cloud.speed > 0
        /\ cloud.pos = (term.width - 5) * 8 * Scale => cloud.speed < 0

\* C10: cloud_update calls drips_generate on every 30th call and on no other,
\* with column pos/8 + 2; drop_count counts the calls since and is below
\* drop_delay after every call.
C10_DropTimer ==
    pc = "water" =>
        /\ gen.called <=> frame % 30 = 0
        /\ cloud.drop_count = frame % 30
        /\ cloud.drop_count < cloud.drop_delay
        /\ gen.called => gen.x = cloud.pos \div (8 * Scale) + 2

\* the 30th call has just asked for a drip
C10_Witness == pc = "water" /\ gen.called /\ frame = 30

\* C11: within a row render writes a color sequence for a cell only when the
\* color_mode the cell resolves to differs from the one the cell before it
\* resolved to: between two neighbouring cells of one row that end in the same
\* color_mode (two island cells included) no color sequence is written.
C11_ColorOnlyOnChange ==
    \A i \in 1..(Len(out) - 1) :
        (out[i].y = out[i + 1].y /\ out[i].mode = out[i + 1].mode)
            => \A j \in 1..Len(out[i + 1].ops) : out[i + 1].ops[j].op # "color"

\* the glyphs among the operations written for one cell
Glyphs(ops) == { j \in 1..Len(ops) : ops[j].op \notin {"color", "move"} }

\* C12: render writes at most one glyph for a cell, the first of drip, cloud,
\* blank and water that applies: a cell with an active drip gets the drip
\* glyph and nothing else.
C12_OneGlyphPerCell ==
    \A i \in 1..Len(out) : Cardinality(Glyphs(out[i].ops)) <= 1

RECURSIVE SumHeights(_)
SumHeights(cols) ==
    IF cols = << >> THEN 0 ELSE Head(cols).height + SumHeights(Tail(cols))

\* C13: one pass of the lateral spread takes every delta from the heights
\* before the pass and applies them afterwards, so the sum of the column
\* heights is the same before and after the pass, for a pass over any number
\* n >= 1 of columns and any height profile.
C13_SpreadConservesSum ==
    \A n \in 1..NCols(water) :
        SumHeights(SpreadPass(water, n).cols) = SumHeights(water.cols)

\* a profile that is not flat, which the pass does change
C13_Witness ==
    /\ pc = "water"
    /\ ~WaterOutOfBounds(water, term)
    /\ \E i \in 1..(NCols(water) - 1) : water.cols[i].height # water.cols[i + 1].height
    /\ SpreadPass(water, term.width).cols # water.cols

\* ------------------------------------------------------ the water left alone
\* water_update called again and again on the surface one drips_update leaves
\* behind: no further impact, no resize, target_height constant.
MaxWave == 420
MaxImpactSteps == 6
SettleFrames == 400
SettleEps == Scale \div 10

\* a drip over column x that has fallen n steps and is about to reach the water
LastStep(x, n) == [Drip(x, 8) EXCEPT !.speed = -(GRAVITY * n), !.n = n]

InitWave ==
    \E s \in TermSizes :
        \E ds \in {<< >>} \cup { <<LastStep(x, n)>> : x \in 0..(s[1] - 1),
                                                    n \in 0..(MaxImpactSteps - 1) } :
            LET t == [termsize_init(s) EXCEPT !.updated = 0]
                r == drips_update(ds, water_init(termsize_init(s)), t, "wrap")
            IN  /\ pc = "wave"
                /\ frame = 0
                /\ term = t
                /\ drips = r.drips
                /\ water = r.water
                /\ cloud = cloud_init(t)
                /\ cmpcol = [cols |-> r.cmp, hits |-> r.hits]
                /\ gen = NoGen
                /\ peak = 0
                /\ out = << >>

WaveStep ==
    /\ pc = "wave"
    /\ frame < MaxWave
    /\ frame' = frame + 1
    /\ water' = water_update(water, term, TRUE)
    /\ cmpcol' = NoCmp
    /\ UNCHANGED <<pc, term, drips, cloud, gen, peak, out>>

NextWave == WaveStep

SpecWave == InitWave /\ [][NextWave]_vars

Abs(a) == IF a >= 0 THEN a ELSE -a

\* every column is within e of target_height
Within(w, e) ==
    \A i \in 1..NCols(w) : Abs(w.cols[i].height - w.target_height) <= e

\* the surface is flat at target_height and at rest
AtRest(w) ==
    \A i \in 1..NCols(w) : w.cols[i].height = w.target_height /\ w.cols[i].speed = 0

\* C14 as stated: with target_height constant, no impact and no resize, a
\* water_update step never increases any column's distance from target_height
\* and never takes a column across target_height.
C14_MonotoneConvergence ==
    [][pc = "wave" =>
          \A i \in 1..NCols(water) :
              LET d == water.cols[i].height - water.target_height
                  e == water'.cols[i].height - water'.target_height
              IN  /\ Abs(e) <= Abs(d)
                  /\ d > 0 => e >= 0
                  /\ d < 0 => e <= 0]_vars

\* C14, amended: with target_height constant, no impact and no resize, the
\* columns swing about target_height and the swing dies out: SettleFrames
\* water_update steps after a single impact every column is within 0.1 of
\* target_height and stays there, and a surface at rest at target_height is
\* left as it is.
C14_DampedOscillation ==
    /\ [](pc = "wave" /\ frame >= SettleFrames => Within(water, SettleEps))
    /\ [][pc = "wave" /\ AtRest(water) => water'.cols = water.cols]_vars

\* a surface that an impact disturbed has settled
C14_Witness ==
    /\ pc = "wave"
    /\ frame >= SettleFrames
    /\ Within(water, SettleEps)
    /\ \E i \in 1..NCols(water) : water.cols[i].height # water.target_height

\* the cloud c on the call on which its drop is due
DropNow(c) == [c EXCEPT !.drop_count = c.drop_delay - 1]

\* C15: when the realloc for a new slot fails, drips_generate returns -2 and
\* leaves the pool as it was (same size, every slot unchanged); the
\* cloud_update that asked for the drip still completes with its counter
\* reset, and the next due drop, with memory available again, spawns a drip.
C15_FailedSpawnDropped ==
    /\ (gen.called /\ gen.rc = -2) =>
           drips = gen.before /\ FirstFree(gen.before) = Len(gen.before)
    /\ FirstFree(drips) = Len(drips) =>
           \A rev \in BOOLEAN :
               LET f == cloud_update(DropNow(cloud), drips, term, rev, FALSE)
                   g == cloud_update(DropNow(f.cloud), f.drips, term, rev, TRUE)
               IN  /\ f.gen.called /\ f.gen.rc = -2
                   /\ f.drips = drips
                   /\ f.cloud.drop_count = 0
                   /\ g.gen.called /\ g.gen.rc = 0
                   /\ Len(g.drips) = Len(drips) + 1
                   /\ g.drips[Len(drips) + 1].active = 1
                   /\ \A k \in 1..Len(drips) : g.drips[k] = drips[k]

\* a spawn has just failed on a pool of two falling drips
C15_Witness ==
    /\ gen.called /\ gen.rc = -2
    /\ Len(drips) = 2
    /\ NumActive(drips) = 2
    /\ \E i \in 1..2 : drips[i].n > 0

\* C16 as stated: no step lowers target_height and only drips_update changes
\* it; a resize in particular leaves it as it is.
C16_TargetNeverLowered ==
    [][/\ water'.target_height >= water.target_height
       /\ water'.target_height # water.target_height => pc = "drips"]_vars

\* C16, amended: a water_update on a resize frame whose realloc succeeds sets
\* target_height back to 8, whatever the impacts had raised it to; every
\* other change of target_height is a raise made by drips_update.
C16_ResizeResetsTarget ==
    [][/\ (pc = "water" /\ term.updated = 1 /\ water'.rc = 0)
              => water'.target_height = InitialTarget
       /\ water'.target_height # water.target_height
              => \/ pc = "drips" /\ water'.target_height > water.target_height
                 \/ pc = "water" /\ term.updated = 1 /\ water'.rc = 0]_vars

\* an impact had room to raise target_height in this frame, and the resize of
\* the same frame has put it back to 8
C16_Witness ==
    /\ pc = "render"
    /\ term.updated = 1 /\ water.rc = 0
    /\ cmpcol.hits > 0
    /\ InitialTarget < ToFloat(SizeT((term.height - 3) * 8))
    /\ water.target_height = InitialTarget

\* ------------------------------------------------------- one drip falling
\* drips_update called again and again on a pool that holds one freshly
\* spawned drip, on a terminal that keeps its size.
MaxFall == 70
FallSizes == { <<6, 5>>, <<6, 10>> }

InitFall ==
    \E s \in FallSizes, x \in OpsColumns :
        LET t == [termsize_init(s) EXCEPT !.updated = 0]
            r == drips_generate(<< >>, x, t.height, TRUE)
        IN  /\ pc = "fall"
            /\ frame = 0
            /\ term = t
            /\ water = water_init(termsize_init(s))
            /\ drips = r.drips
            /\ cloud = cloud_init(t)
            /\ cmpcol = NoCmp
            /\ gen = [called |-> TRUE, x |-> x, rc |-> r.rc, before |-> << >>]
            /\ peak = 1
            /\ out = << >>

FallStep ==
    /\ pc = "fall"
    /\ frame < MaxFall
    /\ frame' = frame + 1
    /\ \E ub \in UBModes :
          LET r == drips_update(drips, water, term, ub)
          IN  /\ drips' = r.drips
              /\ water' = r.water
              /\ cmpcol' = [cols |-> r.cmp, hits |-> r.hits]
    /\ gen' = NoGen
    /\ UNCHANGED <<pc, term, cloud, peak, out>>

NextFall == FallStep

SpecFall == InitFall /\ [][NextFall]_vars

\* C17: on a terminal that keeps its height the y of every drip stays within
\* 0..(height-2)*8: a fall that is longer than what is left of y ends at 0,
\* it does not wrap around.
C17_YInRange ==
    \A i \in 1..Len(drips) : drips[i].y <= SizeT((term.height - 2) * 8)

\* C18: every water column that drips_update is about to read or write lies
\* inside the allocated array, and every column the cloud hands to
\* drips_generate is less than the width of the terminal.  (The columns
\* render reads are 0..width-1; they leave the array only after the failed
\* realloc of C1.)
C18_ColumnsInBounds ==
    /\ pc = "drips" => ~DripsUpdateUndefined(drips, water)
    /\ gen.called => gen.x < term.width

\* the number of drips_update steps within which a drip spawned at d.y0 must
\* have reached water of height 0 or more: every step lowers y by 1 at least
FallBound(d) == d.y0 + 1

\* C19: a drip does not stay active forever: with the water heights at 0 or
\* above, an active drip has taken no more than FallBound steps.
C19_FallsWithinBound ==
    (\A k \in 1..NCols(water) : water.cols[k].height >= 0)
        => \A i \in 1..Len(drips) :
               drips[i].active = 1 => drips[i].n <= FallBound(drips[i])

\* what render wrote, as one sequence: every operation with k, the place of
\* its cell in the scan (row * width + column)
RECURSIVE Stream(_, _)
Stream(cells, width) ==
    IF cells = << >> THEN << >>
    ELSE LET c == Head(cells)
         IN  [j \in 1..Len(c.ops) |->
                 [k |-> c.y * width + c.x, op |-> c.ops[j].op,
                  a |-> c.ops[j].a, b |-> c.ops[j].b]]
             \o Stream(Tail(cells), width)

IsGlyph(o) == o.op \notin {"color", "move"}

\* where the terminal's cursor is (counted like k) before operation j of the
\* stream s: main has cleared the screen and homed the cursor, a move puts
\* it where it says, a glyph advances it by its width, wrapping at the end of
\* a row
CursorBefore(s, j, width) ==
    LET moves == { m \in 1..(j - 1) : s[m].op = "move" }
        last == IF moves = {} THEN 0 ELSE CHOOSE m \in moves : \A n \in moves : n <= m
        base == IF last = 0 THEN 0 ELSE (s[last].a - 1) * width + (s[last].b - 1)
        since == { i \in (last + 1)..(j - 1) : IsGlyph(s[i]) }
    IN  base + Cardinality(since)
             + 4 * Cardinality({ i \in since : s[i].op = "cloud" })

\* the move at j comes although the glyph before it was written for the same
\* cell, or for the cell just before it and is one cell wide: there is no gap
MoveWithoutGap(s, j) ==
    LET before == { i \in 1..(j - 1) : IsGlyph(s[i]) }
        p == CHOOSE i \in before : \A n \in before : n <= i
    IN  /\ before # {}
        /\ \/ s[p].k = s[j].k
           \/ s[p].k = s[j].k - 1 /\ s[p].a = 1

\* C20: every glyph render writes for a cell is written while the cursor is
\* on that cell, and a cursor move is written only for the first glyph after
\* a gap of skipped cells.
C20_CursorSound ==
    LET s == Stream(out, term.width)
    IN  \A j \in 1..Len(s) :
            /\ IsGlyph(s[j]) => CursorBefore(s, j, term.width) = s[j].k
            /\ s[j].op = "move" => ~MoveWithoutGap(s, j)

====
